---- MODULE Spec2Model ----
(***************************************************************************)
(* A model of DeepSeekTerminal.py: the HTTP client (DeepSeekClient), the   *)
(* file-backed chat store (ChatHistory) and the handlers of the Textual    *)
(* application (DeepSeekApp) that drive them.                              *)
(*                                                                         *)
(* Text is a sequence of one-character strings, so that strip(), len() and *)
(* slicing are computed.  Instants are integer clock ticks; the identifier *)
(* of a chat is the instant truncated to the second (strftime              *)
(* "%Y%m%d_%H%M%S"), a listed time is the instant truncated to the minute  *)
(* (strftime "%Y-%m-%d %H:%M").  The literal texts of the source (error    *)
(* prefixes, status texts, the placeholder title) are rendered in ASCII.   *)
(***************************************************************************)
EXTENDS Integers, Sequences, FiniteSets, TLC

VARIABLES
    phase,            \* "constructed" (after __init__), "running" (mounted), "stopped"
    now,              \* datetime.now(), in ticks
    disk,             \* CHAT_HISTORY_DIR: file name (chat id) -> file content
    history,          \* ChatHistory: [current_chat_id, current_chat]
    current_chat_id,  \* DeepSeekApp.current_chat_id
    worker,           \* the send_message worker of the group and its request
    widgets,          \* [loading, send_disabled, input_disabled]
    status,           \* StatusBar.status and the error panel last mounted
    trace,            \* observation of the run (history variable)
    cl,               \* DeepSeekClient.chat applied to drawn responses
    ix                \* get_chat_list applied to drawn records

vars == <<phase, now, disk, history, current_chat_id, worker, widgets, status,
          trace, cl, ix>>

appVars == <<phase, now, disk, history, current_chat_id, worker, widgets, status,
             trace>>

-----------------------------------------------------------------------------
(* Bounds of the model *)

\* number of ticks in a second (the clock of the source has 10^6)
TicksPerSecond == 2
\* last instant of the run
MaxTick == 2
\* send_message calls of a run
MaxSubmits == 2
\* longest text between the padding of a drawn message content
MaxBody == 35
\* longest run of spaces before and after it
MaxPad == 1
\* files of a drawn directory
MaxFiles == 3

-----------------------------------------------------------------------------
(* Program constants *)

SecondsPerMinute == 60
TitleLimit == 30
TitleKeep == 27
None == -1

TicksPerMinute == TicksPerSecond * SecondsPerMinute

-----------------------------------------------------------------------------
(* Text: str.strip, len, slices *)

SP == " "

RECURSIVE lstrip(_)
lstrip(s) == IF s = <<>> THEN s
             ELSE IF Head(s) = SP THEN lstrip(Tail(s)) ELSE s

RECURSIVE rstrip(_)
rstrip(s) == IF s = <<>> THEN s
             ELSE IF s[Len(s)] = SP THEN rstrip(SubSeq(s, 1, Len(s) - 1)) ELSE s

strip(s) == rstrip(lstrip(s))

\* s[:n]
Prefix(s, n) == SubSeq(s, 1, IF n < Len(s) THEN n ELSE Len(s))

RECURSIVE Repeat(_, _)
Repeat(c, n) == IF n = 0 THEN <<>> ELSE <<c>> \o Repeat(c, n - 1)

-----------------------------------------------------------------------------
(* DeepSeekClient *)

\* Optional[str] results of chat: the content and the error message
NoContent == [none |-> TRUE, text |-> <<>>]
Content(t) == [none |-> FALSE, text |-> t]
NoError == [none |-> TRUE, prefix |-> "", code |-> 0, detail |-> ""]
\* an error message f"{prefix}: {code} - {detail}"
Error(p, c, d) == [none |-> FALSE, prefix |-> p, code |-> c, detail |-> d]

ApiError == "API error"                     \* line 95
NetworkError == "network request error"     \* line 97
UnknownError == "unknown error"             \* line 99
NoReplyFound == "no reply content found in API response"   \* line 93
NoValidResponse == "no valid response received"            \* line 519
RequestFailed == "request failed"                          \* line 522
DeleteFailed == "delete chat failed"                       \* line 554

\* A response body: its raw text and, when it is JSON, what the path
\* choices[0].message.content holds in it.
Body(raw, json, top, choices, choice, message, content, text) ==
    [raw |-> raw, json |-> json, top |-> top, choices |-> choices,
     choice |-> choice, message |-> message, content |-> content, text |-> text]

Bodies ==
    { Body("<html>", FALSE, "-", "-", "-", "-", "-", <<>>),
      Body("null", TRUE, "null", "-", "-", "-", "-", <<>>),
      Body("[]", TRUE, "arr", "-", "-", "-", "-", <<>>),
      Body("{}", TRUE, "obj", "absent", "-", "-", "-", <<>>),
      Body("{\"error\":\"unauthorized\"}", TRUE, "obj", "absent", "-", "-", "-", <<>>),
      Body("{\"choices\":null}", TRUE, "obj", "null", "-", "-", "-", <<>>),
      Body("{\"choices\":[]}", TRUE, "obj", "empty", "-", "-", "-", <<>>),
      Body("{\"choices\":[null]}", TRUE, "obj", "list", "null", "-", "-", <<>>),
      Body("{\"choices\":[\"x\"]}", TRUE, "obj", "list", "str", "-", "-", <<>>),
      Body("{\"choices\":[{}]}", TRUE, "obj", "list", "obj", "absent", "-", <<>>),
      Body("{\"choices\":[{\"message\":null}]}", TRUE, "obj", "list", "obj", "null", "-", <<>>),
      Body("{\"choices\":[{\"message\":\"x\"}]}", TRUE, "obj", "list", "obj", "str", "-", <<>>),
      Body("{\"choices\":[{\"message\":{}}]}", TRUE, "obj", "list", "obj", "obj", "absent", <<>>),
      Body("{\"choices\":[{\"message\":{\"content\":null}}]}", TRUE, "obj", "list", "obj", "obj", "null", <<>>),
      Body("{\"choices\":[{\"message\":{\"content\":\"\"}}]}", TRUE, "obj", "list", "obj", "obj", "str", <<>>),
      Body("{\"choices\":[{\"message\":{\"content\":\"r\"}}]}", TRUE, "obj", "list", "obj", "obj", "str", <<"r">>),
      Body("{\"choices\":[{\"message\":{\"content\":\"s\"}}]}", TRUE, "obj", "list", "obj", "obj", "str", <<"s">>) }

BodyOf(raw) == CHOOSE b \in Bodies : b.raw = raw

StatusCodes == {200, 204, 401, 500}

\* What httpx.post meets: a transport fault, or a response with a status and a body.
Faults == {"connect failed", "timed out"}
Responses ==
    [fault : Faults, code : {0}, body : {BodyOf("null")}]
    \cup [fault : {"none"}, code : StatusCodes, body : Bodies]

\* no raise_for_status: every status passes
is_success_any(code) == code = code

\* Response.is_success, which raise_for_status tests
is_success(code) == code \div 100 = 2

\* payload["messages"] of the request (lines 73-79): the list passed, as it is
Payload(messages) == messages

\* the value returned at line 92
ContentOf(data) == IF data.content = "null" THEN NoContent ELSE Content(data.text)

\* DeepSeekClient.chat meeting response r: (content, error)
chat(messages, r) ==
    IF r.fault # "none"
    THEN [content |-> NoContent, error |-> Error(NetworkError, 0, r.fault)]
    ELSE IF ~is_success(r.code)
    THEN [content |-> NoContent, error |-> Error(ApiError, r.code, r.body.raw)]
    ELSE IF ~r.body.json
    THEN [content |-> NoContent, error |-> Error(UnknownError, 0, "JSONDecodeError")]
    ELSE LET data == r.body IN
         IF data.top = "null"
         THEN [content |-> NoContent, error |-> Error(UnknownError, 0, "TypeError")]
         ELSE IF data.top = "obj" /\ data.choices = "list"
         THEN IF data.choice = "null"
              THEN [content |-> NoContent, error |-> Error(UnknownError, 0, "TypeError")]
              ELSE IF data.choice = "obj" /\ data.message # "absent"
              THEN IF data.message = "null"
                   THEN [content |-> NoContent,
                         error |-> Error(UnknownError, 0, "TypeError")]
                   ELSE IF data.message = "obj" /\ data.content # "absent"
                   THEN [content |-> ContentOf(data), error |-> NoError]
                   ELSE [content |-> NoContent, error |-> Error(NoReplyFound, 0, "")]
              ELSE [content |-> NoContent, error |-> Error(NoReplyFound, 0, "")]
         ELSE [content |-> NoContent, error |-> Error(NoReplyFound, 0, "")]

\* the client specification: a response is drawn, chat is applied to it
ClientIdle == [done |-> FALSE, response |-> CHOOSE r \in Responses : TRUE,
               result |-> [content |-> NoContent, error |-> NoError]]

-----------------------------------------------------------------------------
(* ChatHistory *)

Fields == {"id", "messages", "created", "last_modified"}

\* A file of the directory: text that parses as a JSON object with some of the
\* fields, or text that does not parse.
File(json, fields, id, messages, created, last_modified) ==
    [json |-> json, fields |-> fields, id |-> id, messages |-> messages,
     created |-> created, last_modified |-> last_modified]

\* what open(chat_file, "w") leaves until json.dump has written the whole object
Truncated == File(FALSE, {}, None, <<>>, 0, 0)

Message(role, content, t) == [role |-> role, content |-> content, timestamp |-> t]

\* ChatHistory.__init__
NewHistory == [current_chat_id |-> None, current_chat |-> <<>>]

\* strftime("%Y%m%d_%H%M%S") of an instant
ChatId(t) == t \div TicksPerSecond

\* ChatHistory.new_chat
new_chat(h, t) == [current_chat_id |-> ChatId(t), current_chat |-> <<>>]

Store(d, name, file) ==
    [n \in DOMAIN d \cup {name} |-> IF n = name THEN file ELSE d[n]]

Remove(d, name) == [n \in DOMAIN d \ {name} |-> d[n]]

\* a write of the id and the times, the messages left out
Record_no_messages(h, t) == File(TRUE, Fields, h.current_chat_id, <<>>, t, t)

\* a write of the newest message alone
Record_newest_only(h, t) ==
    File(TRUE, Fields, h.current_chat_id, <<h.current_chat[Len(h.current_chat)]>>, t, t)

\* the object json.dump writes (lines 126-131)
Record(h, t) == File(TRUE, Fields, h.current_chat_id, h.current_chat, t, t)

\* How a write to a file ends: the object is written; open raises and the file is
\* as it was; a write raises after open has truncated the file; the process
\* stops after open has truncated the file.
Written == "written"
OpenFailed == "open failed"
WriteFailed == "write failed"
Killed == "killed"
SaveOutcomes == {Written, OpenFailed, WriteFailed, Killed}

\* save_chat returns at line 122 without touching the directory
SaveSkipped(h) == h.current_chat_id = None \/ h.current_chat = <<>>

\* ChatHistory.save_chat: the directory after it, when the write ends as o
save_chat(h, d, t, o) ==
    IF SaveSkipped(h) THEN d
    ELSE IF o = Written THEN Store(d, h.current_chat_id, Record(h, t))
    ELSE IF o = OpenFailed THEN d
    ELSE Store(d, h.current_chat_id, Truncated)

\* the OSError caught inside save_chat
SaveRaises_swallowed(h, o) == ~SaveSkipped(h) /\ o \in {}

\* save_chat raises OSError to its caller
SaveRaises(h, o) == ~SaveSkipped(h) /\ o \in {OpenFailed, WriteFailed}

\* the process stops inside save_chat
SaveKilled(h, o) == ~SaveSkipped(h) /\ o = Killed

\* ChatHistory.add_message up to line 190: the message is appended in memory
add_message(h, role, content, t) ==
    [h EXCEPT !.current_chat = Append(@, Message(role, content, t))]

\* ChatHistory.load_chat: the value returned and the history afterwards.  Line 140
\* assigns current_chat_id before line 141 reads data["messages"].
load_chat(h, d, chat_id) ==
    IF chat_id \notin DOMAIN d THEN [ok |-> FALSE, history |-> h]
    ELSE LET data == d[chat_id] IN
         IF ~data.json THEN [ok |-> FALSE, history |-> h]
         ELSE IF "id" \notin data.fields THEN [ok |-> FALSE, history |-> h]
         ELSE IF "messages" \notin data.fields
         THEN [ok |-> FALSE, history |-> [h EXCEPT !.current_chat_id = data.id]]
         ELSE [ok |-> TRUE,
               history |-> [current_chat_id |-> data.id, current_chat |-> data.messages]]

\* ChatHistory.delete_chat: unlink succeeds or raises
Unlinked == "unlinked"
UnlinkFailed == "unlink failed"
DeleteOutcomes == {Unlinked, UnlinkFailed}

delete_chat(d, chat_id, o) ==
    IF chat_id \in DOMAIN d /\ o = Unlinked
    THEN [ok |-> TRUE, disk |-> Remove(d, chat_id)]
    ELSE [ok |-> FALSE, disk |-> d]

-----------------------------------------------------------------------------
(* ChatHistory.get_chat_list *)

Placeholder == <<"n", "e", "w", " ", "c", "h", "a", "t">>    \* line 159
Ellipsis == <<".", ".", ".">>                                \* line 164

RECURSIVE FirstUser(_)
\* the first message with role "user", as a one-element list, or the empty list
FirstUser(messages) ==
    IF messages = <<>> THEN <<>>
    ELSE IF Head(messages).role = "user" THEN <<Head(messages)>>
    ELSE FirstUser(Tail(messages))

\* the cut made at the limit, the marker behind it
Title_cut_at_limit(messages) ==
    LET u == FirstUser(messages) IN
    IF u = <<>> THEN Placeholder
    ELSE LET title == strip(u[1].content) IN
         IF Len(title) > TitleLimit THEN Prefix(title, TitleLimit) \o Ellipsis
         ELSE title

\* lines 159-165
Title(messages) ==
    LET u == FirstUser(messages) IN
    IF u = <<>> THEN Placeholder
    ELSE LET title == strip(u[1].content) IN
         IF Len(title) > TitleLimit THEN Prefix(title, TitleKeep) \o Ellipsis
         ELSE title

\* strftime("%Y-%m-%d %H:%M") of an instant
Minute(t) == t \div TicksPerMinute

\* data.get(field, "2023-01-01T00:00:00")
DefaultTime == 0
TimeOf(data, field) ==
    IF field \in data.fields
    THEN (IF field = "created" THEN data.created ELSE data.last_modified)
    ELSE DefaultTime

\* every file that parses is listed
Listable_any_json(data) == data.json

\* the try block of lines 155-177 ends without an exception
Listable(data) == data.json /\ "messages" \in data.fields /\ "id" \in data.fields

Summary(data) ==
    [id |-> data.id, title |-> Title(data.messages),
     created |-> Minute(TimeOf(data, "created")),
     modified |-> Minute(TimeOf(data, "last_modified")),
     message_count |-> Len(data.messages)]

\* the orders in which glob can yield the files of a directory
GlobOrders(d) ==
    LET n == Cardinality(DOMAIN d) IN
    { f \in [1..n -> DOMAIN d] : \A i, j \in 1..n : f[i] = f[j] => i = j }

RECURSIVE Summaries(_, _)
\* lines 152-179: the summaries of the files that parse, in glob order
Summaries(d, order) ==
    IF order = <<>> THEN <<>>
    ELSE LET data == d[Head(order)] IN
         (IF Listable(data) THEN <<Summary(data)>> ELSE <<>>)
         \o Summaries(d, Tail(order))

\* the key of line 182
SortKey(x) == x.modified

RECURSIVE InsertDescending(_, _)
\* x put behind every element whose key is not smaller (sorted is stable, also
\* with reverse=True)
InsertDescending(s, x) ==
    IF s = <<>> THEN <<x>>
    ELSE IF SortKey(Head(s)) >= SortKey(x) THEN <<Head(s)>> \o InsertDescending(Tail(s), x)
    ELSE <<x>> \o s

RECURSIVE sorted(_, _)
\* sorted(chats, key=..., reverse=True), acc the part sorted so far
sorted(list, acc) ==
    IF list = <<>> THEN acc
    ELSE sorted(Tail(list), InsertDescending(acc, Head(list)))

get_chat_list(d, order) == sorted(Summaries(d, order), <<>>)

-----------------------------------------------------------------------------
(* DeepSeekApp: state *)

Status(text, id, error) == [text |-> text, id |-> id, error |-> error]

Ready == "ready"                      \* lines 298, 426
NewChatCreated == "new chat created"  \* line 458
MessageAdded == "message added"       \* line 466
ErrorShown == "error"                 \* line 472
ConfirmDelete == "confirm delete"     \* line 534
ChatDeleted == "chat deleted"         \* lines 550, 603
ChatLoaded == "chat loaded"           \* line 595

\* the worker group of send_message: no worker; a worker created and not yet
\* run; the worker inside client.chat with the payload it sent (the call is
\* synchronous: the event loop runs nothing else until it returns).  inflight
\* counts the workers of the group that are inside client.chat: cancelling a
\* worker there has no effect, the call has no await at which it could end.
\* chat_id is the chat that was active when the worker appended its message.
NoWorker ==
    [state |-> "none", message |-> <<>>, payload |-> <<>>, inflight |-> 0,
     chat_id |-> None]
Pending(message) ==
    [state |-> "pending", message |-> message, payload |-> <<>>,
     inflight |-> worker.inflight, chat_id |-> None]
Awaiting(message, payload) ==
    [state |-> "awaiting", message |-> message, payload |-> payload,
     inflight |-> worker.inflight + 1, chat_id |-> history.current_chat_id]

\* show_loading(False) left out of the finally block
Enabled_loading_left ==
    [loading |-> TRUE, send_disabled |-> FALSE, input_disabled |-> FALSE]

\* the widgets as composed, and as the finally block leaves them (lines 525-527)
Enabled == [loading |-> FALSE, send_disabled |-> FALSE, input_disabled |-> FALSE]
Busy == [loading |-> TRUE, send_disabled |-> TRUE, input_disabled |-> TRUE]

\* the values typed into the input
Texts == { <<"a">>, <<" ", "b">>, <<" ">> }

\* the answers the endpoint gives the application
Endpoint ==
    { r \in Responses :
        \/ r.fault = "timed out"
        \/ r.code = 401 /\ r.body.raw = "{\"error\":\"unauthorized\"}"
        \/ r.code = 200 /\ r.body.raw = "{}"
        \/ r.code = 200 /\ r.body.message = "obj" /\ r.body.text # <<"s">> }

\* files found in the directory when the process starts
ForeignFiles ==
    { File(TRUE, Fields \ {"messages"}, 0, <<>>, 0, 0),
      File(TRUE, Fields \ {"id"}, None, <<>>, 0, 0) }

InitialDisks == { <<>> } \cup { [n \in {0} |-> f] : f \in ForeignFiles }

\* the observation: the send_message calls made, and the messages of the
\* calls the pending or running worker has superseded, with the length of the
\* active chat at the first of them
NoRace == [superseded |-> <<>>, base |-> 0]
NoTrace == [submits |-> 0, race |-> NoRace]

\* the worker has ended, or the active chat is replaced
Settled == [trace EXCEPT !.race = NoRace]

\* handlers that run while a worker is inside client.chat
Running_during_call == phase = "running"

\* a handler can run: the application is mounted and the event loop is not held
\* by a worker inside client.chat (httpx.post at line 81 is a blocking call)
Running == phase = "running" /\ worker.state # "awaiting"

Init ==
    /\ phase = "constructed"
    /\ now = 0
    /\ disk \in InitialDisks
    /\ history = NewHistory
    /\ current_chat_id = None
    /\ worker = NoWorker
    /\ widgets = Enabled
    /\ status = Status(Ready, None, NoError)
    /\ trace = NoTrace
    /\ cl = ClientIdle
    /\ ix = <<>>

-----------------------------------------------------------------------------
(* The clock *)

Tick ==
    /\ now < MaxTick
    /\ now' = now + 1
    /\ UNCHANGED <<phase, disk, history, current_chat_id, worker, widgets, status,
                   trace, cl, ix>>

-----------------------------------------------------------------------------
(* DeepSeekApp: handlers *)

\* DeepSeekApp.create_new_chat (lines 451-458): the history and the status after it
create_new_chat(h, t) ==
    [history |-> new_chat(h, t),
     status |-> Status(NewChatCreated, ChatId(t), NoError)]

\* DeepSeekApp.show_error
show_error(message) == Status(ErrorShown, None, message)

\* on_mount: a new chat is created (the sidebar and the display are widgets,
\* which the model leaves out)
on_mount ==
    /\ phase = "constructed"
    /\ phase' = "running"
    /\ history' = create_new_chat(history, now).history
    /\ current_chat_id' = ChatId(now)
    /\ status' = create_new_chat(history, now).status
    /\ UNCHANGED <<now, disk, worker, widgets, trace, cl, ix>>

\* action_new_chat, on_new_chat
action_new_chat ==
    /\ Running
    /\ history' = create_new_chat(history, now).history
    /\ current_chat_id' = ChatId(now)
    /\ status' = create_new_chat(history, now).status
    /\ trace' = Settled
    /\ UNCHANGED <<phase, now, disk, worker, widgets, cl, ix>>

\* send_message(message) as the handlers call it: @work(exclusive=True) cancels
\* the workers of the group and creates one, which has not run yet
send_message(message) ==
    /\ trace.submits < MaxSubmits
    /\ worker' = Pending(message)
    /\ trace' =
         [submits |-> trace.submits + 1,
          race |-> IF worker.state = "pending"
                   THEN [superseded |-> Append(trace.race.superseded, worker.message),
                         base |-> IF trace.race.superseded = <<>>
                                  THEN Len(history.current_chat)
                                  ELSE trace.race.base]
                   ELSE NoRace]

\* on_send_button: the stripped value is sent when it is not empty
on_send_button(value) ==
    /\ Running
    /\ IF strip(value) # <<>>
       THEN send_message(strip(value))
       ELSE UNCHANGED <<worker, trace>>
    /\ UNCHANGED <<phase, now, disk, history, current_chat_id, widgets, status,
                   cl, ix>>

\* on_input_submitted: the value is sent as typed when its strip is not empty
on_input_submitted(value) ==
    /\ Running
    /\ IF strip(value) # <<>>
       THEN send_message(value)
       ELSE UNCHANGED <<worker, trace>>
    /\ UNCHANGED <<phase, now, disk, history, current_chat_id, widgets, status,
                   cl, ix>>

\* the content tested where the error should be
HasError_tests_content(result) == ~result.content.none /\ result.content.text # <<>>

\* line 513, `if error:` (an error message is never the empty string)
HasError(result) == ~result.error.none

\* line 515, `elif content:`
HasContent(result) == ~result.content.none /\ result.content.text # <<>>

\* the memory of a process that has ended
Ended ==
    /\ phase' = "stopped"
    /\ history' = NewHistory
    /\ current_chat_id' = None
    /\ worker' = NoWorker
    /\ widgets' = Enabled
    /\ status' = Status(Ready, None, NoError)
    /\ trace' = Settled

\* send_message, lines 498-507: the worker runs up to the call of client.chat.
\* An exception of add_message_to_chat at line 502 leaves the worker, and the
\* application exits on a failed worker.
send_message_begin(o) ==
    /\ phase = "running"
    /\ worker.state = "pending"
    /\ LET message == worker.message
           h == add_message(history, "user", message, now)
       IN IF strip(message) = <<>>
          THEN /\ worker' = NoWorker
               /\ trace' = Settled
               /\ UNCHANGED <<phase, disk, history, current_chat_id, widgets, status>>
          ELSE /\ disk' = save_chat(h, disk, now, o)
               /\ IF SaveRaises(h, o) \/ SaveKilled(h, o)
                  THEN Ended
                  ELSE /\ history' = h
                       /\ status' = Status(MessageAdded, current_chat_id, NoError)
                       /\ widgets' = Busy
                       /\ worker' = Awaiting(message, Payload(h.current_chat))
                       /\ UNCHANGED <<phase, current_chat_id, trace>>
    /\ UNCHANGED <<now, cl, ix>>

\* send_message, lines 511-528: client.chat returns, the result is handled, the
\* finally block runs
send_message_end(r, o) ==
    /\ phase = "running"
    /\ worker.state = "awaiting"
    /\ LET result == chat(worker.payload, r)
           h == add_message(history, "assistant", result.content.text, now)
       IN IF HasError(result)
          THEN /\ status' = show_error(result.error)
               /\ widgets' = Enabled
               /\ worker' = NoWorker
               /\ trace' = Settled
               /\ UNCHANGED <<phase, disk, history, current_chat_id>>
          ELSE IF HasContent(result)
          THEN /\ disk' = save_chat(h, disk, now, o)
               /\ IF SaveKilled(h, o)
                  THEN Ended
                  ELSE /\ history' = h
                       /\ status' =
                            IF SaveRaises(h, o)
                            THEN show_error(Error(RequestFailed, 0, o))
                            ELSE Status(MessageAdded, current_chat_id, NoError)
                       /\ widgets' = Enabled
                       /\ worker' = NoWorker
                       /\ trace' = Settled
                       /\ UNCHANGED <<phase, current_chat_id>>
          ELSE /\ status' = show_error(Error(NoValidResponse, 0, ""))
               /\ widgets' = Enabled
               /\ worker' = NoWorker
               /\ trace' = Settled
               /\ UNCHANGED <<phase, disk, history, current_chat_id>>
    /\ UNCHANGED <<now, cl, ix>>

\* the ids an event can name: the files of the directory and the active chat
Names == DOMAIN disk \cup ({current_chat_id, history.current_chat_id} \ {None})

\* action_delete_chat (Ctrl+D): confirm_dialog answers yes or no
action_delete_chat(yes, o) ==
    /\ Running
    /\ current_chat_id # None
    /\ LET deleted == delete_chat(disk, current_chat_id, o) IN
       IF ~yes
       THEN /\ status' = Status(ConfirmDelete, current_chat_id, NoError)
            /\ UNCHANGED <<disk, history, current_chat_id, trace>>
       ELSE IF deleted.ok
       THEN /\ disk' = deleted.disk
            /\ history' = create_new_chat(history, now).history
            /\ current_chat_id' = ChatId(now)
            /\ status' = create_new_chat(history, now).status
            /\ trace' = Settled
       ELSE /\ status' = show_error(Error(DeleteFailed, 0, ""))
            /\ UNCHANGED <<disk, history, current_chat_id, trace>>
    /\ UNCHANGED <<phase, now, worker, widgets, cl, ix>>

\* on_chat_selected
on_chat_selected(chat_id) ==
    /\ Running
    /\ LET loaded == load_chat(history, disk, chat_id) IN
       /\ history' = loaded.history
       /\ IF loaded.ok
          THEN /\ current_chat_id' = chat_id
               /\ status' = Status(ChatLoaded, chat_id, NoError)
          ELSE UNCHANGED <<current_chat_id, status>>
       /\ trace' = IF loaded.history = history THEN trace ELSE Settled
    /\ UNCHANGED <<phase, now, disk, worker, widgets, cl, ix>>

\* on_chat_deleted, the handler of ChatHistoryList.ChatDeleted (no widget of the
\* file posts the message; the handler is an entry point of the application)
on_chat_deleted(chat_id, o) ==
    /\ Running
    /\ LET deleted == delete_chat(disk, chat_id, o) IN
       IF deleted.ok
       THEN /\ disk' = deleted.disk
            /\ IF current_chat_id = chat_id
               THEN /\ history' = create_new_chat(history, now).history
                    /\ current_chat_id' = ChatId(now)
                    /\ status' = create_new_chat(history, now).status
                    /\ trace' = Settled
               ELSE /\ status' = Status(ChatDeleted, chat_id, NoError)
                    /\ UNCHANGED <<history, current_chat_id, trace>>
       ELSE UNCHANGED <<disk, history, current_chat_id, status, trace>>
    /\ UNCHANGED <<phase, now, worker, widgets, cl, ix>>

\* the process ends: Ctrl+Q, or it is killed (also inside client.chat)
stop ==
    /\ phase = "running"
    /\ Ended
    /\ UNCHANGED <<now, disk, cl, ix>>

Next ==
    \/ Tick
    \/ on_mount
    \/ action_new_chat
    \/ \E value \in Texts : on_send_button(value)
    \/ \E value \in Texts : on_input_submitted(value)
    \/ \E o \in SaveOutcomes : send_message_begin(o)
    \/ \E r \in Endpoint, o \in SaveOutcomes : send_message_end(r, o)
    \/ \E yes \in BOOLEAN, o \in DeleteOutcomes : action_delete_chat(yes, o)
    \/ \E chat_id \in Names : on_chat_selected(chat_id)
    \/ \E chat_id \in Names, o \in DeleteOutcomes : on_chat_deleted(chat_id, o)
    \/ stop

Spec == Init /\ [][Next]_vars

\* client.chat returns: httpx.post has timeout=30.0 (line 85) and every exception
\* is caught (lines 94-99), and the worker inside the call is the only code the
\* event loop runs
ChatReturns == \E r \in Endpoint, o \in SaveOutcomes : send_message_end(r, o)

SpecLive == Spec /\ WF_vars(ChatReturns)

-----------------------------------------------------------------------------
(* The client alone: chat applied to every response *)

\* the application, not started, while a function is checked alone
Parked ==
    /\ phase = "constructed"
    /\ now = 0
    /\ disk = <<>>
    /\ history = NewHistory
    /\ current_chat_id = None
    /\ worker = NoWorker
    /\ widgets = Enabled
    /\ status = Status(Ready, None, NoError)
    /\ trace = NoTrace

ClientInit ==
    /\ Parked
    /\ cl \in [done : {FALSE}, response : Responses, result : {ClientIdle.result}]
    /\ ix = <<>>

ClientCall ==
    /\ ~cl.done
    /\ cl' = [done |-> TRUE, response |-> cl.response,
              result |-> chat(<<>>, cl.response)]
    /\ UNCHANGED <<phase, now, disk, history, current_chat_id, worker, widgets,
                   status, trace, ix>>

SpecClient == ClientInit /\ [][ClientCall]_vars

-----------------------------------------------------------------------------
(* The title alone: Title applied to drawn message lists *)

\* a content: spaces, a body, spaces
Padded(lead, n, trail) == Repeat(SP, lead) \o Repeat("x", n) \o Repeat(SP, trail)

DrawnContents ==
    { Padded(lead, n, trail) : lead \in 0..MaxPad, n \in 0..MaxBody, trail \in 0..MaxPad }

\* message lists: no message, no user message, a user message first, a user
\* message behind an assistant message and before another user message
DrawnMessages ==
    { <<>>, <<Message("assistant", <<"r">>, 0)>> }
    \cup { <<Message("user", c, 0)>> : c \in DrawnContents }
    \cup { <<Message("assistant", <<"r">>, 0), Message("user", c, 0),
             Message("user", <<"z">>, 0)>> : c \in DrawnContents }

TitleInit ==
    /\ Parked
    /\ cl = ClientIdle
    /\ ix \in [done : {FALSE}, messages : DrawnMessages, title : {<<>>}]

TitleCall ==
    /\ ~ix.done
    /\ ix' = [done |-> TRUE, messages |-> ix.messages, title |-> Title(ix.messages)]
    /\ UNCHANGED <<phase, now, disk, history, current_chat_id, worker, widgets,
                   status, trace, cl>>

SpecTitle == TitleInit /\ [][TitleCall]_vars

-----------------------------------------------------------------------------
(* The listing alone: get_chat_list applied to drawn directories *)

\* instants of one minute and of the next
DrawnTimes == {0, 1, TicksPerMinute}

DrawnFile(id, t) ==
    File(TRUE, Fields, id, <<Message("user", <<"a">>, t)>>, 0, t)

DrawnDisks ==
    { [id \in 1..MaxFiles |-> DrawnFile(id, times[id])] :
        times \in [1..MaxFiles -> DrawnTimes] }

ListInit ==
    /\ Parked
    /\ cl = ClientIdle
    /\ \E d \in DrawnDisks : \E order \in GlobOrders(d) :
          ix = [done |-> FALSE, files |-> d, order |-> order, list |-> <<>>]

ListCall ==
    /\ ~ix.done
    /\ ix' = [ix EXCEPT !.done = TRUE, !.list = get_chat_list(ix.files, ix.order)]
    /\ UNCHANGED <<phase, now, disk, history, current_chat_id, worker, widgets,
                   status, trace, cl>>

SpecList == ListInit /\ [][ListCall]_vars

-----------------------------------------------------------------------------
(* The listing of a directory of records and of files that are not records *)

\* the files a directory can hold under a name: records of one and of two
\* messages, a record without its times, text that is not JSON, and objects
\* without "messages" or without "id"
MixedFiles(id) ==
    { File(TRUE, Fields, id, <<Message("user", <<"a">>, 0)>>, 0, 0),
      File(TRUE, Fields, id,
           <<Message("user", <<"a">>, 0), Message("assistant", <<"r">>, 0)>>, 0, 0),
      File(TRUE, {"id", "messages"}, id, <<Message("user", <<"a">>, 0)>>, 0, 0),
      Truncated,
      File(TRUE, Fields \ {"messages"}, id, <<>>, 0, 0),
      File(TRUE, Fields \ {"id"}, None, <<Message("user", <<"a">>, 0)>>, 0, 0) }

MixedDisks ==
    { d \in [1..MaxFiles -> UNION { MixedFiles(id) : id \in 1..MaxFiles }] :
        \A id \in 1..MaxFiles : d[id] \in MixedFiles(id) }

MixedInit ==
    /\ Parked
    /\ cl = ClientIdle
    /\ \E d \in MixedDisks : \E order \in GlobOrders(d) :
          ix = [done |-> FALSE, files |-> d, order |-> order, list |-> <<>>]

SpecMixed == MixedInit /\ [][ListCall]_vars

-----------------------------------------------------------------------------
(* Properties *)

\* the messages of a list without their timestamps
RoleContent(messages) ==
    [i \in DOMAIN messages |->
        [role |-> messages[i].role, content |-> messages[i].content]]

Turn(role, content) == [role |-> role, content |-> content]

Last(s) == s[Len(s)]

\* what a new process loads for an id
Loaded(d, chat_id) == load_chat(NewHistory, d, chat_id)

\* C1: when send_message(b) is called before the call of send_message(a) has
\* resolved, then once b's reply is appended the active chat holds, behind what
\* it held at a's call, exactly user a, user b and the assistant reply to b.
C1_Exclusive ==
    [][ worker.state = "awaiting" => \A r \in Endpoint :
          ( /\ Len(trace.race.superseded) = 1
            /\ trace.race.superseded[1] # worker.message
            /\ send_message_end(r, Written)
            /\ HasContent(chat(worker.payload, r)) )
          => /\ Len(history'.current_chat) = trace.race.base + 3
             /\ RoleContent(SubSeq(history'.current_chat, trace.race.base + 1,
                                   trace.race.base + 3))
                = << Turn("user", trace.race.superseded[1]),
                     Turn("user", worker.message),
                     Turn("assistant", r.body.text) >> ]_vars

\* a step of add_message that returned: the file of the active chat loads as
\* the list held before with the new message behind it
Appended(role, content) ==
    LET loaded == Loaded(disk', history'.current_chat_id) IN
    /\ loaded.ok
    /\ loaded.history.current_chat_id = history'.current_chat_id
    /\ RoleContent(loaded.history.current_chat)
       = Append(RoleContent(history.current_chat), Turn(role, content))

\* C2: after every append that returned, of a user message or of a reply, loading
\* the id of the chat succeeds and yields that id and all the messages appended
\* so far, in append order, with role and content.
C2_RoundTrip ==
    [][ /\ worker.state = "pending" => \A o \in SaveOutcomes :
             (worker'.state = "awaiting" /\ send_message_begin(o))
             => Appended("user", worker.message)
        /\ worker.state = "awaiting" => \A r \in Endpoint, o \in SaveOutcomes :
             (status'.text = MessageAdded /\ send_message_end(r, o))
             => Appended("assistant", r.body.text) ]_vars

\* four messages were appended to a chat and its file loads as the list in memory
C2_Witness ==
    /\ phase = "running"
    /\ worker.state = "none"
    /\ status.text = MessageAdded
    /\ Len(history.current_chat) = 4
    /\ Loaded(disk, history.current_chat_id) = [ok |-> TRUE, history |-> history]

\* C3: when client.chat returns an error, no assistant message is appended: the
\* list in memory and the file of the active chat both end with the user message
\* of the submit, and the error is shown by show_error.
C3_NoAssistantOnError ==
    [][ worker.state = "awaiting" => \A r \in Endpoint :
          ( /\ ~chat(worker.payload, r).error.none
            /\ \E o \in SaveOutcomes : send_message_end(r, o) )
          => /\ history' = history
             /\ Last(history'.current_chat).role = "user"
             /\ Last(history'.current_chat).content = worker.message
             /\ Loaded(disk', history'.current_chat_id)
                = [ok |-> TRUE, history |-> history']
             /\ status' = show_error(chat(worker.payload, r).error) ]_vars

\* a 401 was shown, the list and the file end with the user message
C3_Witness ==
    /\ phase = "running"
    /\ worker.state = "none"
    /\ status.text = ErrorShown
    /\ status.error.prefix = ApiError
    /\ status.error.code = 401
    /\ history.current_chat # <<>>
    /\ Last(history.current_chat).role = "user"
    /\ Loaded(disk, history.current_chat_id) = [ok |-> TRUE, history |-> history]

\* the ids of the summaries of a listing
ListedIds(d) ==
    UNION { { get_chat_list(d, order)[i].id : i \in DOMAIN get_chat_list(d, order) } :
            order \in GlobOrders(d) }

\* C4: after a confirmed delete of the active chat the active chat is new, empty
\* and has no file, its id differs from the deleted one, and no listing holds a
\* summary with the deleted id.
C4_DeleteActive ==
    [][ action_delete_chat(TRUE, Unlinked)
        => /\ history'.current_chat = <<>>
           /\ history'.current_chat_id # current_chat_id
           /\ current_chat_id' # current_chat_id
           /\ current_chat_id' = history'.current_chat_id
           /\ current_chat_id' \notin DOMAIN disk'
           /\ current_chat_id \notin ListedIds(disk') ]_vars

\* C5: a selection whose load fails leaves the id and the list of the history and
\* the id of the application as they were, and leaves the two ids equal.
C5_FailedSelect ==
    [][ \A chat_id \in Names :
          (on_chat_selected(chat_id) /\ ~load_chat(history, disk, chat_id).ok)
          => /\ history' = history
             /\ current_chat_id' = current_chat_id
             /\ (history.current_chat_id = current_chat_id
                 => history'.current_chat_id = current_chat_id') ]_vars

\* the process stops inside save_chat
KilledInSave ==
    \/ send_message_begin(Killed) /\ phase' = "stopped"
    \/ \E r \in Endpoint : send_message_end(r, Killed) /\ phase' = "stopped"

\* C6: when the process stops inside the write of an append to a chat whose file
\* loaded before, the file loads afterwards, as the messages from before the
\* append or as the messages after it.
C6_AtomicAppend ==
    [][ (KilledInSave /\ Loaded(disk, history.current_chat_id).ok)
        => LET after == Loaded(disk', history.current_chat_id) IN
           /\ after.ok
           /\ \/ after.history.current_chat
                 = Loaded(disk, history.current_chat_id).history.current_chat
              \/ /\ Len(after.history.current_chat)
                    = Len(history.current_chat) + 1
                 /\ SubSeq(after.history.current_chat, 1, Len(history.current_chat))
                    = history.current_chat ]_vars

\* C7: chat returns exactly one of content and error, for every response.
C7_ExactlyOne ==
    cl.done => (cl.result.content.none # cl.result.error.none)

\* a success response whose JSON object has no usable choices[0].message.content:
\* no choices, empty choices, a choice without message, a message without content
LacksContent(r) ==
    /\ r.fault = "none" /\ r.code \in 200..299
    /\ r.body.json /\ r.body.top = "obj"
    /\ \/ r.body.choices \in {"absent", "empty"}
       \/ /\ r.body.choices = "list" /\ r.body.choice = "obj"
          /\ \/ r.body.message = "absent"
             \/ r.body.message = "obj" /\ r.body.content = "absent"

\* C8: a success response that lacks the content yields the protocol error; a
\* non-success status yields the API error with the status and the raw body; a
\* transport fault (connection, timeout) yields the network error; none comes
\* with a content, and each of the three errors is returned for its class only.
C8_Classification ==
    cl.done =>
      LET r == cl.response
          e == cl.result.error
      IN /\ LacksContent(r) => cl.result = [content |-> NoContent,
                                            error |-> Error(NoReplyFound, 0, "")]
         /\ (r.fault = "none" /\ r.code \notin 200..299)
            <=> (~e.none /\ e.prefix = ApiError)
         /\ e.prefix = ApiError
            => cl.result = [content |-> NoContent,
                            error |-> Error(ApiError, r.code, r.body.raw)]
         /\ r.fault # "none" <=> (~e.none /\ e.prefix = NetworkError)
         /\ e.prefix = NetworkError
            => cl.result = [content |-> NoContent,
                            error |-> Error(NetworkError, 0, r.fault)]
         /\ e.prefix = NoReplyFound
            => (r.fault = "none" /\ r.code \in 200..299 /\ r.body.json)
         /\ Cardinality({ApiError, NetworkError, NoReplyFound}) = 3

\* a 401 was answered with the API error carrying 401 and the body
C8_Witness ==
    /\ cl.done
    /\ cl.response.code = 401
    /\ cl.response.body.raw = "{\"error\":\"unauthorized\"}"
    /\ cl.result.error = Error(ApiError, 401, "{\"error\":\"unauthorized\"}")

\* C9: the listing is ordered by last_modified, most recent first, and summaries
\* of equal last_modified by id, greatest first.
C9_ListingOrder ==
    ix.done =>
      \A i, j \in DOMAIN ix.list :
        i < j =>
          LET a == ix.files[ix.list[i].id]
              b == ix.files[ix.list[j].id]
          IN \/ a.last_modified > b.last_modified
             \/ a.last_modified = b.last_modified /\ a.id > b.id

\* the content of the first user message of the drawn list, or the empty list
FirstContent(messages) ==
    IF FirstUser(messages) = <<>> THEN <<>> ELSE FirstUser(messages)[1].content

HasUser(messages) == FirstUser(messages) # <<>>

\* C10 as stated: the title is at most 30 characters long; a first user content
\* longer than 30 gives a title of exactly 30 characters ending with the marker;
\* a content of 30 characters or fewer is the title; no user message gives the
\* placeholder.
C10_TitleOfContent ==
    ix.done =>
      LET c == FirstContent(ix.messages) IN
      /\ Len(ix.title) <= TitleLimit
      /\ (HasUser(ix.messages) /\ Len(c) > TitleLimit)
         => /\ Len(ix.title) = TitleLimit
            /\ SubSeq(ix.title, TitleLimit - 2, TitleLimit) = Ellipsis
      /\ (HasUser(ix.messages) /\ Len(c) <= TitleLimit) => ix.title = c
      /\ ~HasUser(ix.messages) => ix.title = Placeholder

\* C10, amended: the same of the first user content with the spaces around it
\* stripped; the 30 characters of a longer one are its first 27 and the marker.
C10_TitleOfStripped ==
    ix.done =>
      LET c == strip(FirstContent(ix.messages)) IN
      /\ Len(ix.title) <= TitleLimit
      /\ (HasUser(ix.messages) /\ Len(c) > TitleLimit)
         => /\ Len(ix.title) = TitleLimit
            /\ ix.title = SubSeq(c, 1, TitleLimit - 3) \o Ellipsis
      /\ (HasUser(ix.messages) /\ Len(c) <= TitleLimit) => ix.title = c
      /\ ~HasUser(ix.messages) => ix.title = Placeholder

\* a content of 35 characters between spaces got a title of 30 with the marker
C10_Witness ==
    /\ ix.done
    /\ ix.messages = <<Message("user", Padded(1, 35, 1), 0)>>
    /\ Len(ix.title) = 30
    /\ SubSeq(ix.title, 28, 30) = Ellipsis

\* C11: at most one send_message worker is inside client.chat with a result that
\* can still be applied, and it is the worker the application waits for.
C11_OneInFlight ==
    /\ worker.inflight <= 1
    /\ worker.inflight = 1 <=> worker.state = "awaiting"

\* a second submit has superseded a first one and one request is outstanding
C11_Witness ==
    /\ worker.state = "awaiting"
    /\ worker.inflight = 1
    /\ trace.submits = 2
    /\ trace.race.superseded # <<>>

\* the indicator is off and the button and the input accept a submit
Idle ==
    /\ worker.state = "none"
    /\ widgets = [loading |-> FALSE, send_disabled |-> FALSE, input_disabled |-> FALSE]

\* C12: a submit that waits for client.chat shows the indicator and disables the
\* button and the input; it always leaves that state, whatever client.chat
\* returns and however the write of the reply ends, and then the indicator is off
\* and the button and the input are enabled.  A value that is empty once
\* stripped, sent by the button or by the input, changes nothing.
C12_ReturnsToIdle ==
    /\ [](worker.state = "awaiting"
           => widgets = [loading |-> TRUE, send_disabled |-> TRUE,
                         input_disabled |-> TRUE])
    /\ (worker.state = "awaiting") ~> Idle
    /\ [][ worker.state = "awaiting" => (worker'.state # "awaiting" => Idle') ]_vars
    /\ [][ \A value \in Texts :
             (strip(value) = <<>> /\ (on_send_button(value) \/ on_input_submitted(value)))
             => UNCHANGED vars ]_vars

\* a submit whose reply could not be written is back to idle, the failure shown
C12_Witness ==
    /\ phase = "running"
    /\ Idle
    /\ trace.submits >= 1
    /\ status.text = ErrorShown
    /\ status.error.prefix = RequestFailed

\* C13: the messages of the request a submit sends are the messages of the
\* active chat, in order, the user message of the submit last, each with its
\* role and its content and nothing else.
C13_WirePayload ==
    worker.state = "awaiting"
    => /\ worker.payload = RoleContent(history.current_chat)
       /\ Last(worker.payload) = Turn("user", worker.message)

\* a file that parses and has the required fields
ValidRecord(data) == data.json /\ {"id", "messages"} \subseteq data.fields

\* C14: of a directory that mixes records with files that do not parse or lack
\* a required field, the listing holds one summary for each record, with the
\* number of its messages, and none for another file; it is empty when no file
\* is a record.
C14_ListingSkipsCorrupt ==
    ix.done =>
      LET valid == { n \in DOMAIN ix.files : ValidRecord(ix.files[n]) } IN
      /\ Len(ix.list) = Cardinality(valid)
      /\ \A n \in valid :
            \E i \in DOMAIN ix.list :
              /\ ix.list[i].id = ix.files[n].id
              /\ ix.list[i].message_count = Len(ix.files[n].messages)
      /\ (valid = {} => ix.list = <<>>)

\* a record of two messages listed beside a file that is not JSON and an object
\* without "messages"
C14_Witness ==
    /\ ix.done
    /\ Len(ix.list) = 1
    /\ ix.list[1].message_count = 2
    /\ \E n \in DOMAIN ix.files : ~ix.files[n].json
    /\ \E n \in DOMAIN ix.files :
          ix.files[n].json /\ "messages" \notin ix.files[n].fields

\* a file save_chat has written whole (the files found at start lack a field)
WrittenRecord(file) == file.json /\ file.fields = Fields

\* C15: every record save_chat has written holds a message; creating a chat
\* writes nothing; the record of an id appears in a step that appends a message,
\* and holds the messages in memory.
C15_NoEmptyRecord ==
    /\ [](\A n \in DOMAIN disk : WrittenRecord(disk[n]) => disk[n].messages # <<>>)
    /\ [][ (on_mount \/ action_new_chat) => disk' = disk ]_vars
    /\ [][ \A n \in DOMAIN disk' :
             (WrittenRecord(disk'[n]) /\ (n \notin DOMAIN disk \/ ~WrittenRecord(disk[n])))
             => /\ worker.state \in {"pending", "awaiting"}
                /\ n = history'.current_chat_id
                /\ disk'[n].messages = history'.current_chat
                /\ Len(history'.current_chat) = Len(history.current_chat) + 1 ]_vars

\* a chat was created after the record of an earlier chat was written, and has
\* no file
C15_Witness ==
    /\ phase = "running"
    /\ history.current_chat = <<>>
    /\ history.current_chat_id \notin DOMAIN disk
    /\ \E n \in DOMAIN disk : WrittenRecord(disk[n]) /\ Len(disk[n].messages) = 2

\* C16: the id new_chat returns for Ctrl+N differs from the id of the chat that
\* was active before, and from the id of every record written to the directory.
C16_UniqueIds ==
    [][ action_new_chat
        => /\ history'.current_chat_id # history.current_chat_id
           /\ \A n \in DOMAIN disk :
                 WrittenRecord(disk[n]) => history'.current_chat_id # n ]_vars

\* the ways a write fails with an exception
Failures == {OpenFailed, WriteFailed}

\* C17: when the write of the user message fails, the exception leaves the
\* worker and the application ends without sending the request; when the write
\* of the reply fails, the failure is shown by show_error; in neither case is
\* the message reported as added.
C17_StorageFailureSurfaced ==
    [][ /\ worker.state = "pending" =>
             \A o \in Failures :
               send_message_begin(o)
               => /\ phase' = "stopped"
                  /\ worker'.state # "awaiting"
                  /\ status'.text # MessageAdded
        /\ worker.state = "awaiting" =>
             \A r \in Endpoint, o \in Failures :
               (HasContent(chat(worker.payload, r)) /\ send_message_end(r, o))
               => /\ status'.text = ErrorShown
                  /\ status'.error = Error(RequestFailed, 0, o) ]_vars

\* the write of a reply has failed after open: the error is shown, the file of
\* the chat is cut
C17_Witness ==
    /\ phase = "running"
    /\ worker.state = "none"
    /\ status.error = Error(RequestFailed, 0, WriteFailed)
    /\ history.current_chat_id \in DOMAIN disk
    /\ disk[history.current_chat_id] = Truncated

\* C18: while the application runs, an active chat that holds a message has a
\* file under its id which loads as exactly the id and the list in memory.
C18_WriteThrough ==
    (phase = "running" /\ history.current_chat # <<>>)
    => Loaded(disk, history.current_chat_id) = [ok |-> TRUE, history |-> history]

\* s is the beginning of t
IsPrefix(s, t) == Len(s) <= Len(t) /\ SubSeq(t, 1, Len(s)) = s

\* C19: every rewrite of the record of an id keeps the messages the record held
\* as the beginning of the messages it holds afterwards.
C19_RecordsOnlyGrow ==
    [][ \A n \in DOMAIN disk \cap DOMAIN disk' :
          (WrittenRecord(disk[n]) /\ WrittenRecord(disk'[n]))
          => IsPrefix(disk[n].messages, disk'[n].messages) ]_vars

\* every assistant message of a list stands directly behind a user message
RepliesFollowUsers(messages) ==
    \A i \in DOMAIN messages :
      messages[i].role = "assistant" => (i > 1 /\ messages[i - 1].role = "user")

C21_CreatedStable ==
    [][ \A n \in DOMAIN disk \cap DOMAIN disk' :
          ( /\ WrittenRecord(disk[n]) /\ WrittenRecord(disk'[n])
            /\ disk'[n] # disk[n]
            /\ IsPrefix(disk[n].messages, disk'[n].messages) )
          => /\ disk'[n].created = disk[n].created
             /\ disk'[n].last_modified >= disk[n].last_modified ]_vars

====
